---- MODULE Spec2Model ----
(***************************************************************************)
(* The agentic outfit-generation loop of                                   *)
(* src/src/services/outfit_generator_service.py                            *)
(* (OutfitGeneratorService.generate_outfit), run against a model provider  *)
(* whose replies are chosen nondeterministically, and a weather endpoint   *)
(* that may fail.  One action is one pass of the code between two          *)
(* client.messages.create calls (or up to the return / raise).             *)
(***************************************************************************)
EXTENDS Integers, Sequences, FiniteSets, TLC

VARIABLES
    closet,             \* the `closet` argument (closet.garments)
    context,            \* the `context` argument
    given,              \* the caller's `previous_messages` argument
    previous_messages,  \* the local variable previous_messages
    response,           \* the local variable response
    result,             \* the local variable result (unbound until assigned)
    pc,                 \* "start", "loop", "returned", "raised"
    calls,              \* every client.messages.create call, in order
    received,           \* every response the client returned, in order
    weather_calls,      \* every call_weather_api call, in order
    outcome,            \* the value returned by generate_outfit
    error,              \* the exception generate_outfit ended with
    lookup,             \* the latest call_weather_api call: arguments, endpoint answer, result
    http_response,      \* what POST /generate/{user_id} answered (None until it has)
    pair,               \* two concurrent runs and the list objects they hold (SpecPair)
    db                  \* the database, the open session and the request in progress (SpecDb)

vars == <<closet, context, given, previous_messages, response, result, pc,
          calls, received, weather_calls, outcome, error, lookup, http_response, pair, db>>

----------------------------------------------------------------------------
(* Bounds *)

\* model calls of one run
MaxCalls == 3

\* the largest weather code the endpoint is made to answer with
MaxWeatherCode == 99

\* model calls of each of two concurrent runs
PairMaxCalls == 2

----------------------------------------------------------------------------
(* Values *)

\* Python's None
None == [none |-> TRUE]

\* an unassigned local variable
Unbound == [bound |-> FALSE]

Bound(v) == [bound |-> TRUE, value |-> v]

\* the empty dict {}
EmptyDict == [k \in {} |-> 0]

\* max_tokens of the first call and of the calls after a pause or a tool
BaseMaxTokens == 1024

\* max_tokens of the call that answers a truncated response
RetryMaxTokens == 4096

\* content of a turn: a str, or a list of content-block dicts
StrContent(s) == [text |-> s]

ListContent(bs) == [blocks |-> bs]

Turn(role, content) == [role |-> role, content |-> content]

\* GarmentResponse (the fields the loop reads, and one it never reads)
Garment(i) == [id |-> i, owner |-> 1]

\* the f-string prompt built from closet and context
Query(c, ctx) == [prompt |-> "Recommend an optimal and fashionable outfit",
                  garments |-> c, context |-> ctx]

\* the tool_result text of the get_location branch
NoLocation == [text |-> "No location provided."]

\* content blocks of a provider response (SDK objects)
TextBlock(t) == [cls |-> "TextBlock", type |-> "text", text |-> t]

ToolUseBlock(id, name, input) ==
    [cls |-> "ToolUseBlock", type |-> "tool_use", id |-> id, name |-> name,
     input |-> input]

\* block.model_dump(): the dict of the block's fields
model_dump(block) ==
    IF block.cls = "TextBlock"
    THEN [type |-> block.type, text |-> block.text, citations |-> None]
    ELSE [type |-> block.type, id |-> block.id, name |-> block.name,
          input |-> block.input]

\* [block.model_dump() for block in response.content]
DumpAll(content) == [i \in 1..Len(content) |-> model_dump(content[i])]

\* a tool_request outcome carrying an empty garment list instead of None
GenerateOutfitResponseList(rt, gs, pm) ==
    [response_type |-> rt, garments |-> IF rt = "tool_request" THEN <<>> ELSE gs,
     previous_messages |-> pm]

\* GenerateOutfitResponse(response_type=..., garments=..., previous_messages=...)
GenerateOutfitResponse(rt, gs, pm) ==
    [response_type |-> rt, garments |-> gs, previous_messages |-> pm]

----------------------------------------------------------------------------
(* Inputs *)

Closets == { <<Garment(1), Garment(2), Garment(3)>>, <<Garment(3), Garment(2)>> }

Contexts == { "ctx" }

\* id of the j-th block of the response to call n (the provider's ids are unique)
ToolId(n, j) == <<n, j>>

\* a transcript handed back by an earlier tool_request outcome
Resumed(c, ctx) ==
    << Turn("user", StrContent(Query(c, ctx))),
       Turn("assistant", ListContent(
            <<model_dump(ToolUseBlock(ToolId(0, 1), "get_location", EmptyDict))>>)),
       Turn("user", ListContent(
            <<[type |-> "tool_result", tool_use_id |-> ToolId(0, 1),
               content |-> NoLocation]>>)) >>

\* a transcript whose tool_result answers an id no tool_use block has
Mismatched(c, ctx) ==
    << Turn("user", StrContent(Query(c, ctx))),
       Turn("assistant", ListContent(
            <<model_dump(ToolUseBlock(ToolId(0, 1), "get_location", EmptyDict))>>)),
       Turn("user", ListContent(
            <<[type |-> "tool_result", tool_use_id |-> ToolId(0, 2),
               content |-> [text |-> "42.28, -83.74"]]>>)) >>

Givens(c, ctx) == { None, Resumed(c, ctx), Mismatched(c, ctx) }

StopReasons == { "tool_use", "max_tokens", "pause_turn" }

\* content lists the provider may send with any stop reason
Contents(n) ==
    { <<TextBlock("thinking")>>,
      <<ToolUseBlock(ToolId(n, 1), "get_location", EmptyDict)>>,
      <<TextBlock("need weather"),
        ToolUseBlock(ToolId(n, 2), "get_weather", [lat |-> 10, lon |-> 20])>>,
      <<ToolUseBlock(ToolId(n, 1), "get_weather", [lat |-> 30, lon |-> 40]),
        ToolUseBlock(ToolId(n, 2), "get_location", EmptyDict)>>,
      <<ToolUseBlock(ToolId(n, 1), "print_outfit_garments", [garments |-> <<3, 1>>])>> }

\* further content lists of complete (neither truncated nor paused) responses
CompleteContents(n) ==
    { <<ToolUseBlock(ToolId(n, 1), "print_outfit_garments", [garments |-> <<2, 9, 2>>]),
        ToolUseBlock(ToolId(n, 2), "get_weather", [lat |-> 10, lon |-> 20])>>,
      <<ToolUseBlock(ToolId(n, 1), "print_outfit_garments", [garments |-> <<>>])>>,
      <<ToolUseBlock(ToolId(n, 1), "print_outfit_garments", EmptyDict)>>,
      <<ToolUseBlock(ToolId(n, 1), "get_time", EmptyDict)>>,
      <<ToolUseBlock(ToolId(n, 1), "get_location", EmptyDict),
        ToolUseBlock(ToolId(n, 2), "print_outfit_garments", [garments |-> <<1>>])>> }

\* the responses the provider may answer call n with
Responses(n) ==
    { [stop_reason |-> s, content |-> c] : s \in StopReasons, c \in Contents(n) }
    \cup { [stop_reason |-> "tool_use", content |-> c] : c \in CompleteContents(n) }

\* a transport failure of client.messages.create
APIConnectionError == [exception |-> "APIConnectionError"]

Replies(n) == Responses(n) \cup { APIConnectionError }

\* a JSON number, in tenths (725 is 72.5); JSON null is None
Num(tenths) == [num |-> tenths]

\* a response body that is not JSON
NotJson == [notjson |-> TRUE]

\* httpx.get raised e (no HTTP response)
NetworkFailure(e) == [raises |-> e, status |-> 0, body |-> NotJson]

\* httpx.get returned a response with this status and body
Answer(status, body) == [raises |-> "", status |-> status, body |-> body]

\* a forecast body with every field the code reads
Forecast(weather_code) ==
    [current |-> [temperature_2m |-> Num(725), relative_humidity_2m |-> Num(405),
                  wind_speed_10m |-> Num(35), weather_code |-> weather_code],
     daily |-> [temperature_2m_max |-> <<Num(801)>>, temperature_2m_min |-> <<Num(555)>>]]

\* what the endpoint may do to the lookups of a generate_outfit run
HttpOutcomes == { NetworkFailure("ConnectError"), Answer(200, Forecast(61)) }

WeatherCodes == (0 - 1)..MaxWeatherCode

\* what the endpoint may do to a lookup
AllHttpOutcomes ==
    { NetworkFailure("ConnectError"), NetworkFailure("ReadTimeout"),
      Answer(404, NotJson), Answer(500, Forecast(0)), Answer(200, NotJson),
      Answer(200, EmptyDict),
      Answer(200, [current |-> [temperature_2m |-> Num(-15), weather_code |-> 71]]),
      Answer(200, [current |-> [temperature_2m |-> None, weather_code |-> 3]]),
      Answer(200, [current |-> [weather_code |-> 95],
                   daily |-> [temperature_2m_max |-> <<None>>,
                              temperature_2m_min |-> <<Num(555)>>]]) }
    \cup { Answer(200, Forecast(c)) : c \in WeatherCodes }

Latitudes == { 10, 30 }

Longitudes == { 20, 40 }

----------------------------------------------------------------------------
(* Weather lookup *)

\* the 80-82 bucket written as a half-open range: 82 falls through
_get_weather_condition_range(weather_code) ==
    IF weather_code = 0 THEN "Clear sky"
    ELSE IF weather_code \in {1, 2, 3} THEN "Partly cloudy"
    ELSE IF weather_code \in {45, 48} THEN "Foggy"
    ELSE IF weather_code \in {51, 53, 55} THEN "Drizzle"
    ELSE IF weather_code \in {61, 63, 65} THEN "Rain"
    ELSE IF weather_code \in {71, 73, 75} THEN "Snow"
    ELSE IF weather_code \in {80, 81} THEN "Rain showers"
    ELSE IF weather_code \in {85, 86} THEN "Snow showers"
    ELSE IF weather_code \in {95, 96, 99} THEN "Thunderstorm"
    ELSE "Unknown"

_get_weather_condition(weather_code) ==
    IF weather_code = 0 THEN "Clear sky"
    ELSE IF weather_code \in {1, 2, 3} THEN "Partly cloudy"
    ELSE IF weather_code \in {45, 48} THEN "Foggy"
    ELSE IF weather_code \in {51, 53, 55} THEN "Drizzle"
    ELSE IF weather_code \in {61, 63, 65} THEN "Rain"
    ELSE IF weather_code \in {71, 73, 75} THEN "Snow"
    ELSE IF weather_code \in {80, 81, 82} THEN "Rain showers"
    ELSE IF weather_code \in {85, 86} THEN "Snow showers"
    ELSE IF weather_code \in {95, 96, 99} THEN "Thunderstorm"
    ELSE "Unknown"

\* d.get(k, default)
Get(d, k, default) == IF k \in DOMAIN d THEN d[k] ELSE default

\* round() of a number given in tenths: half goes to the even integer
Round(x) ==
    LET q == x.num \div 10
        r == x.num % 10
    IN IF r < 5 THEN q
       ELSE IF r > 5 THEN q + 1
       ELSE IF q % 2 = 0 THEN q ELSE q + 1

\* round() raises TypeError on None
Roundable(x) == "num" \in DOMAIN x

\* how a block of code ends: with a value, or with an exception
Return(v) == [raised |-> FALSE, value |-> v]

Raise(e) == [raised |-> TRUE, exception |-> e]

\* the body of the try block of call_weather_api
WeatherTry(latitude, longitude, h) ==
    IF h.raises # "" THEN Raise(h.raises)
    ELSE IF h.status \notin 200..299 THEN Raise("HTTPStatusError")
    ELSE IF h.body = NotJson THEN Raise("JSONDecodeError")
    ELSE
        LET data      == h.body
            current   == Get(data, "current", EmptyDict)
            daily     == Get(data, "daily", EmptyDict)
            temp      == Get(current, "temperature_2m", Num(0))
            humidity  == Get(current, "relative_humidity_2m", Num(0))
            wind      == Get(current, "wind_speed_10m", Num(0))
            weather_code == Get(current, "weather_code", 0)
            daily_max == Get(daily, "temperature_2m_max", <<>>)
            daily_min == Get(daily, "temperature_2m_min", <<>>)
        IN IF \/ ~Roundable(temp) \/ ~Roundable(humidity) \/ ~Roundable(wind)
              \/ (daily_max # <<>> /\ ~Roundable(daily_max[1]))
              \/ (daily_min # <<>> /\ ~Roundable(daily_min[1]))
           THEN Raise("TypeError")
           ELSE Return(
                [text |-> "Current weather at location",
                 latitude |-> latitude, longitude |-> longitude,
                 temperature |-> Round(temp),
                 high |-> IF daily_max # <<>> THEN Round(daily_max[1]) ELSE Round(temp),
                 low |-> IF daily_min # <<>> THEN Round(daily_min[1]) ELSE Round(temp),
                 condition |-> _get_weather_condition(weather_code),
                 humidity |-> Round(humidity),
                 wind |-> Round(wind)])

\* a handler for httpx errors only: any other exception leaves the function
WeatherExceptHttpOnly(latitude, longitude, r) ==
    IF ~r.raised THEN r.value
    ELSE IF r.exception \in {"ConnectError", "ReadTimeout", "HTTPStatusError"}
    THEN [text |-> "Weather information for location",
          latitude |-> latitude, longitude |-> longitude,
          note |-> "weather API unavailable", reason |-> r.exception]
    ELSE r

\* no handler: every exception leaves the function
WeatherExceptNone(latitude, longitude, r) == IF r.raised THEN r ELSE r.value

\* `except Exception as e`: the text returned in place of the exception
WeatherExcept(latitude, longitude, r) ==
    IF r.raised
    THEN [text |-> "Weather information for location",
          latitude |-> latitude, longitude |-> longitude,
          note |-> "weather API unavailable", reason |-> r.exception]
    ELSE r.value

\* what call_weather_api gives when the endpoint does h: the returned text,
\* or Raise(e) if an exception leaves the function
call_weather_api(latitude, longitude, h) ==
    WeatherExcept(latitude, longitude, WeatherTry(latitude, longitude, h))

\* an exception left the called function
Propagates(x) == "exception" \in DOMAIN x

----------------------------------------------------------------------------
(* Pure parts of generate_outfit *)

\* the loop without its `break`: the last tool_use block wins
LastToolUse(content) ==
    LET idx == { i \in 1..Len(content) : content[i].type = "tool_use" }
    IN IF idx = {} THEN 0 ELSE CHOOSE i \in idx : \A j \in idx : i >= j

\* index of the first tool_use block of a content list, 0 when there is none
FirstToolUse(content) ==
    LET idx == { i \in 1..Len(content) : content[i].type = "tool_use" }
    IN IF idx = {} THEN 0 ELSE CHOOSE i \in idx : \A j \in idx : i <= j

\* the print_outfit_garments search after the loop: the block's input, or None
OutfitOutput(content) ==
    LET idx == { i \in 1..Len(content) :
                    /\ content[i].type = "tool_use"
                    /\ content[i].name = "print_outfit_garments" }
    IN IF idx = {} THEN None
       ELSE content[CHOOSE i \in idx : \A j \in idx : i <= j].input

\* `if outfit_output:` (None and the empty dict are falsy)
Truthy(outfit_output) == outfit_output # None /\ DOMAIN outfit_output # {}

\* outfit_output.get("garments", [])
GarmentIds(outfit_output) ==
    IF "garments" \in DOMAIN outfit_output THEN outfit_output.garments ELSE <<>>

SeqRange(s) == { s[i] : i \in 1..Len(s) }

\* the filter dropped: every garment of the closet passes
InGidSetAll(g, gid_set) == TRUE

InGidSet(g, gid_set) == g.id \in gid_set

\* the whole closet returned when nothing is selected
SelectGarmentsOrAll(garments, garment_ids) ==
    LET gid_set == { garment_ids[i] : i \in 1..Len(garment_ids) }
        Keep(g) == g.id \in gid_set
    IN IF SelectSeq(garments, Keep) = <<>> THEN garments ELSE SelectSeq(garments, Keep)

\* the garments picked in the order of the ID list, one per listed id
SelectGarmentsByIdOrder(garments, garment_ids) ==
    LET Known(x) == \E k \in 1..Len(garments) : garments[k].id = x
        known    == SelectSeq(garment_ids, Known)
    IN [i \in 1..Len(known) |->
            garments[CHOOSE k \in 1..Len(garments) : garments[k].id = known[i]]]

\* [garment for garment in closet.garments if garment.id in gid_set]
SelectGarments(garments, garment_ids) ==
    LET gid_set == SeqRange(garment_ids)
        Keep(g) == InGidSet(g, gid_set)
    IN SelectSeq(garments, Keep)

\* the assistant turn recorded for a response
AssistantTurn(content) == Turn("assistant", ListContent(DumpAll(content)))

\* the id of the last block of the response instead of the dispatched one
ResultToolUseIdLast(content, tool) == content[Len(content)].id

\* the id the tool_result block is correlated to
ResultToolUseId(content, tool) == tool.id

\* the tool_result block put twice in the user turn
ToolResultTurnTwice(tool_use_id, text) ==
    Turn("user", ListContent(
        <<[type |-> "tool_result", tool_use_id |-> tool_use_id, content |-> text],
          [type |-> "tool_result", tool_use_id |-> tool_use_id, content |-> text]>>))

\* the user turn carrying one tool_result block
ToolResultTurn(tool_use_id, text) ==
    Turn("user", ListContent(
        <<[type |-> "tool_result", tool_use_id |-> tool_use_id, content |-> text]>>))

----------------------------------------------------------------------------
(* The run *)

\* the prompt turn put in front of a supplied transcript too
InitialMessagesPrepend(pm, c, ctx) ==
    IF pm = None THEN <<Turn("user", StrContent(Query(c, ctx)))>>
    ELSE <<Turn("user", StrContent(Query(c, ctx)))>> \o pm

\* previous_messages after the `if previous_messages is None` initialisation
InitialMessages(pm, c, ctx) ==
    IF pm = None THEN <<Turn("user", StrContent(Query(c, ctx)))>> ELSE pm

\* the truncated response recorded as an assistant turn before the retry
RetryMessagesAppend(pm, content) == Append(pm, AssistantTurn(content))

\* messages= of the call that answers a truncated response
RetryMessages(pm, content) == pm

\* the paused content not recorded before the continuation
PausedMessagesSame(pm, content) == pm

\* previous_messages after a pause_turn response
PausedMessages(pm, content) == Append(pm, AssistantTurn(content))

\* the oldest turn dropped when the two new turns are added
ExtendedMessagesWindow(pm, content, tool_use_id, text) ==
    Tail(pm) \o << AssistantTurn(content), ToolResultTurn(tool_use_id, text) >>

\* the tool_result turn added without the assistant turn it answers
ExtendedMessagesNoAssistant(pm, content, tool_use_id, text) ==
    pm \o << ToolResultTurn(tool_use_id, text) >>

\* the [*previous_messages, assistant turn, user tool_result turn] list
ExtendedMessages(pm, content, tool_use_id, text) ==
    pm \o << AssistantTurn(content), ToolResultTurn(tool_use_id, text) >>

\* lat and lon passed in the wrong order
WeatherArgsSwapped(tool) == [latitude |-> tool.input.lon, longitude |-> tool.input.lat]

\* the arguments of self.call_weather_api(lat, lon)
WeatherArgs(tool) == [latitude |-> tool.input.lat, longitude |-> tool.input.lon]

\* the first tool_use block of the current response (the local `tool`)
Tool == response.content[FirstToolUse(response.content)]

\* the stop reason not looked at before the dispatch
AtDispatchAny == pc = "loop"

\* past both stop-reason branches (each ends in `continue`)
AtDispatch ==
    /\ pc = "loop"
    /\ response.stop_reason \notin {"max_tokens", "pause_turn"}

\* a failed call repeated once before the error is raised
CreateRetry(max_tokens, messages, r) ==
    IF r = APIConnectionError
    THEN /\ calls' = calls \o << [max_tokens |-> max_tokens, messages |-> messages],
                                 [max_tokens |-> max_tokens, messages |-> messages] >>
         /\ pc' = "raised"
         /\ error' = r.exception
         /\ UNCHANGED <<response, received>>
    ELSE /\ calls' = Append(calls, [max_tokens |-> max_tokens, messages |-> messages])
         /\ pc' = "loop"
         /\ response' = r
         /\ received' = Append(received, r)
         /\ UNCHANGED error

\* the largest budget of the run so far kept for every later call
CreateSticky(max_tokens, messages, r) ==
    /\ calls' = Append(calls,
            [max_tokens |-> IF \E k \in 1..Len(calls) : calls[k].max_tokens > max_tokens
                            THEN RetryMaxTokens ELSE max_tokens,
             messages |-> messages])
    /\ IF r = APIConnectionError
       THEN /\ pc' = "raised"
            /\ error' = r.exception
            /\ UNCHANGED <<response, received>>
       ELSE /\ pc' = "loop"
            /\ response' = r
            /\ received' = Append(received, r)
            /\ UNCHANGED error

\* a call in the loop sent with the transcript as it was before this pass
CreateStale(max_tokens, messages, r) ==
    /\ calls' = Append(calls, [max_tokens |-> max_tokens,
                               messages |-> IF pc = "start" THEN messages
                                            ELSE previous_messages])
    /\ IF r = APIConnectionError
       THEN /\ pc' = "raised"
            /\ error' = r.exception
            /\ UNCHANGED <<response, received>>
       ELSE /\ pc' = "loop"
            /\ response' = r
            /\ received' = Append(received, r)
            /\ UNCHANGED error

\* the third and later calls refused: a cap on the iterations
CreateCapped(max_tokens, messages, r) ==
    IF Len(calls) >= 2
    THEN /\ pc' = "raised"
         /\ error' = "iteration cap exceeded"
         /\ UNCHANGED <<calls, response, received>>
    ELSE /\ calls' = Append(calls, [max_tokens |-> max_tokens, messages |-> messages])
         /\ IF r = APIConnectionError
            THEN /\ pc' = "raised"
                 /\ error' = r.exception
                 /\ UNCHANGED <<response, received>>
            ELSE /\ pc' = "loop"
                 /\ response' = r
                 /\ received' = Append(received, r)
                 /\ UNCHANGED error

\* every call made twice
CreateTwice(max_tokens, messages, r) ==
    /\ calls' = calls \o << [max_tokens |-> max_tokens, messages |-> messages],
                            [max_tokens |-> max_tokens, messages |-> messages] >>
    /\ IF r = APIConnectionError
       THEN /\ pc' = "raised"
            /\ error' = r.exception
            /\ UNCHANGED <<response, received>>
       ELSE /\ pc' = "loop"
            /\ response' = r
            /\ received' = Append(received, r)
            /\ UNCHANGED error

\* self.client.messages.create(max_tokens=..., messages=...) answered by r
Create(max_tokens, messages, r) ==
    /\ calls' = Append(calls, [max_tokens |-> max_tokens, messages |-> messages])
    /\ IF r = APIConnectionError
       THEN /\ pc' = "raised"
            /\ error' = r.exception
            /\ UNCHANGED <<response, received>>
       ELSE /\ pc' = "loop"
            /\ response' = r
            /\ received' = Append(received, r)
            /\ UNCHANGED error

\* an empty garments outcome returned where the code raises
FinishEmptyOutfit ==
    LET outfit_output == OutfitOutput(response.content)
    IN /\ pc' = "returned"
       /\ outcome' = GenerateOutfitResponse("garments",
                         IF Truthy(outfit_output)
                         THEN SelectGarments(closet, GarmentIds(outfit_output))
                         ELSE <<>>, None)
       /\ UNCHANGED error

\* the code after the loop: shape the garments outcome, or raise
Finish ==
    LET outfit_output == OutfitOutput(response.content)
    IN IF Truthy(outfit_output)
       THEN /\ pc' = "returned"
            /\ outcome' = GenerateOutfitResponse("garments",
                              SelectGarments(closet, GarmentIds(outfit_output)), None)
            /\ UNCHANGED error
       ELSE /\ pc' = "raised"
            /\ error' = "Error: Something went wrong with Claude API"
            /\ UNCHANGED outcome

Init ==
    /\ closet \in Closets
    /\ context \in Contexts
    /\ given \in Givens(closet, context)
    /\ previous_messages = given
    /\ response = None
    /\ result = Unbound
    /\ pc = "start"
    /\ calls = <<>>
    /\ received = <<>>
    /\ weather_calls = <<>>
    /\ outcome = None
    /\ error = ""
    /\ lookup = None
    /\ http_response = None
    /\ pair = None
    /\ db = None

\* lines 178-188: initialise previous_messages, first model call
Start ==
    /\ pc = "start"
    /\ \E r \in Replies(1) :
        LET pm == InitialMessages(given, closet, context)
        IN /\ previous_messages' = pm
           /\ Create(BaseMaxTokens, pm, r)
    /\ UNCHANGED <<db, http_response, pair, lookup, closet, context, given, result, weather_calls, outcome>>

\* lines 193-202: stop_reason == "max_tokens"
Truncated ==
    /\ pc = "loop"
    /\ response.stop_reason = "max_tokens"
    /\ Len(calls) < MaxCalls
    /\ \E r \in Replies(Len(calls) + 1) :
        Create(RetryMaxTokens, RetryMessages(previous_messages, response.content), r)
    /\ UNCHANGED <<db, http_response, pair, lookup, closet, context, given, previous_messages, result,
                   weather_calls, outcome>>

\* lines 205-219: stop_reason == "pause_turn"
Paused ==
    /\ pc = "loop"
    /\ response.stop_reason = "pause_turn"
    /\ Len(calls) < MaxCalls
    /\ \E r \in Replies(Len(calls) + 1) :
        LET pm == PausedMessages(previous_messages, response.content)
        IN /\ previous_messages' = pm
           /\ Create(BaseMaxTokens, pm, r)
    /\ UNCHANGED <<db, http_response, pair, lookup, closet, context, given, result, weather_calls, outcome>>

\* lines 222-230, 281-297: no tool_use block, break
NoToolUse ==
    /\ AtDispatch
    /\ FirstToolUse(response.content) = 0
    /\ Finish
    /\ UNCHANGED <<db, http_response, pair, lookup, closet, context, given, previous_messages, response, result,
                   calls, received, weather_calls>>

\* lines 233-249: get_location, return the tool_request outcome
GetLocation ==
    /\ AtDispatch
    /\ FirstToolUse(response.content) # 0
    /\ Tool.name = "get_location"
    /\ pc' = "returned"
    /\ outcome' = GenerateOutfitResponse("tool_request", None,
                      ExtendedMessages(previous_messages, response.content,
                          ResultToolUseId(response.content, Tool), NoLocation))
    /\ UNCHANGED <<db, http_response, pair, lookup, closet, context, given, previous_messages, response, result,
                   calls, received, weather_calls, error>>

\* lines 250-254, 259-279: get_weather, tool result, next model call
GetWeather ==
    /\ AtDispatch
    /\ FirstToolUse(response.content) # 0
    /\ Tool.name = "get_weather"
    /\ Len(calls) < MaxCalls
    /\ \E h \in HttpOutcomes, r \in Replies(Len(calls) + 1) :
        LET args == WeatherArgs(Tool)
            text == call_weather_api(args.latitude, args.longitude, h)
            pm   == ExtendedMessages(previous_messages, response.content,
                        ResultToolUseId(response.content, Tool), text)
        IN /\ weather_calls' = Append(weather_calls, args)
           /\ lookup' = [latitude |-> args.latitude, longitude |-> args.longitude,
                         http |-> h, out |-> text]
           /\ IF Propagates(text)
              THEN /\ pc' = "raised"
                   /\ error' = text.exception
                   /\ UNCHANGED <<previous_messages, response, result, calls, received>>
              ELSE /\ result' = Bound(text)
                   /\ previous_messages' = pm
                   /\ Create(BaseMaxTokens, pm, r)
    /\ UNCHANGED <<db, http_response, pair, closet, context, given, outcome>>

\* lines 255-257, 281-297: print_outfit_garments, break
PrintOutfit ==
    /\ AtDispatch
    /\ FirstToolUse(response.content) # 0
    /\ Tool.name = "print_outfit_garments"
    /\ Finish
    /\ UNCHANGED <<db, http_response, pair, lookup, closet, context, given, previous_messages, response, result,
                   calls, received, weather_calls>>

KnownTools == {"get_location", "get_weather", "print_outfit_garments"}

\* lines 259-263 with no branch taken and `result` never assigned
UnknownToolUnbound ==
    /\ AtDispatch
    /\ FirstToolUse(response.content) # 0
    /\ Tool.name \notin KnownTools
    /\ result = Unbound
    /\ pc' = "raised"
    /\ error' = "UnboundLocalError"
    /\ UNCHANGED <<db, http_response, pair, lookup, closet, context, given, previous_messages, response, result,
                   calls, received, weather_calls, outcome>>

\* lines 259-279 with no branch taken and `result` left from an earlier pass
UnknownToolStale ==
    /\ AtDispatch
    /\ FirstToolUse(response.content) # 0
    /\ Tool.name \notin KnownTools
    /\ result # Unbound
    /\ Len(calls) < MaxCalls
    /\ \E r \in Replies(Len(calls) + 1) :
        LET pm == ExtendedMessages(previous_messages, response.content,
                      ResultToolUseId(response.content, Tool), result.value)
        IN /\ previous_messages' = pm
           /\ Create(BaseMaxTokens, pm, r)
    /\ UNCHANGED <<db, http_response, pair, lookup, closet, context, given, result, weather_calls, outcome>>

Next ==
    \/ Start
    \/ Truncated
    \/ Paused
    \/ NoToolUse
    \/ GetLocation
    \/ GetWeather
    \/ PrintOutfit
    \/ UnknownToolUnbound
    \/ UnknownToolStale

Spec == Init /\ [][Next]_vars

----------------------------------------------------------------------------
(* call_weather_api on its own: every endpoint answer, every weather code *)

WeatherInit ==
    /\ closet = <<>>
    /\ context = ""
    /\ given = None
    /\ previous_messages = None
    /\ response = None
    /\ result = Unbound
    /\ pc = "lookup"
    /\ calls = <<>>
    /\ received = <<>>
    /\ weather_calls = <<>>
    /\ outcome = None
    /\ error = ""
    /\ http_response = None
    /\ pair = None
    /\ db = None
    /\ \E la \in Latitudes, lo \in Longitudes, h \in AllHttpOutcomes :
            lookup = [latitude |-> la, longitude |-> lo, http |-> h, out |-> Unbound]

\* one call of call_weather_api(latitude, longitude)
WeatherLookup ==
    /\ pc = "lookup"
    /\ lookup.out = Unbound
    /\ lookup' = [lookup EXCEPT
                    !.out = call_weather_api(lookup.latitude, lookup.longitude, lookup.http)]
    /\ UNCHANGED <<db, http_response, pair, closet, context, given, previous_messages, response, result, pc,
                   calls, received, weather_calls, outcome, error>>

WeatherNext == WeatherLookup

SpecWeather == WeatherInit /\ [][WeatherNext]_vars

----------------------------------------------------------------------------
(* The HTTP boundary: POST /generate/{user_id} and the JSON wire form *)

\* generate_outfit has returned or raised
Done == pc \in {"returned", "raised"}

\* JSON values
JNull == [json |-> "null"]

JString(s) == [json |-> "string", value |-> s]

JNumber(n) == [json |-> "number", value |-> n]

JArray(items) == [json |-> "array", items |-> items]

JObject(members) == [json |-> "object", members |-> members]

\* a tool input on the wire: lat and lon are numbers, garments a list of integers
SerializeInput(input) ==
    JObject([k \in DOMAIN input |->
                IF k = "garments"
                THEN JArray([i \in 1..Len(input[k]) |-> JNumber(input[k][i])])
                ELSE JNumber(input[k])])

\* fields holding None left out of the wire form
SerializeBlockExcludeNone(b) ==
    IF b.type = "text"
    THEN JObject([type |-> JString(b.type), text |-> JString(b.text)])
    ELSE IF b.type = "tool_use"
    THEN JObject([type |-> JString(b.type), id |-> JString(b.id),
                  name |-> JString(b.name), input |-> SerializeInput(b.input)])
    ELSE JObject([type |-> JString(b.type), tool_use_id |-> JString(b.tool_use_id),
                  content |-> JString(b.content)])

\* one content-block dict (Dict[str, Any]) on the wire
SerializeBlock(b) ==
    IF b.type = "text"
    THEN JObject([type |-> JString(b.type), text |-> JString(b.text),
                  citations |-> JNull])
    ELSE IF b.type = "tool_use"
    THEN JObject([type |-> JString(b.type), id |-> JString(b.id),
                  name |-> JString(b.name), input |-> SerializeInput(b.input)])
    ELSE JObject([type |-> JString(b.type), tool_use_id |-> JString(b.tool_use_id),
                  content |-> JString(b.content)])

\* the content of a turn: a JSON string, or an array of block objects
SerializeContent(c) ==
    IF "text" \in DOMAIN c THEN JString(c.text)
    ELSE JArray([i \in 1..Len(c.blocks) |-> SerializeBlock(c.blocks[i])])

SerializeTurn(t) ==
    JObject([role |-> JString(t.role), content |-> SerializeContent(t.content)])

\* previous_messages: List[Dict[str, Any]] of GenerateOutfitResponse on the wire
SerializeTranscript(T) == JArray([i \in 1..Len(T) |-> SerializeTurn(T[i])])

\* a JSON value read back as a Python value (Any)
ParseAny(j) ==
    IF j.json = "null" THEN None
    ELSE IF j.json = "array" THEN [i \in 1..Len(j.items) |-> j.items[i].value]
    ELSE j.value

ParseInput(j) == [k \in DOMAIN j.members |-> ParseAny(j.members[k])]

ParseBlock(j) ==
    [k \in DOMAIN j.members |->
        IF j.members[k].json = "object" THEN ParseInput(j.members[k])
        ELSE ParseAny(j.members[k])]

ParseContent(j) ==
    IF j.json = "string" THEN StrContent(j.value)
    ELSE ListContent([i \in 1..Len(j.items) |-> ParseBlock(j.items[i])])

ParseTurn(j) == Turn(j.members.role.value, ParseContent(j.members.content))

\* previous_messages: List[Dict[str, Any]] of GenerateOutfitRequest read from the wire
ParseTranscript(j) == [i \in 1..Len(j.items) |-> ParseTurn(j.items[i])]

\* GarmentResponse on the wire
SerializeGarment(g) == JObject([id |-> JNumber(g.id), owner |-> JNumber(g.owner)])

\* GenerateOutfitResponse on the wire (response_model=GenerateOutfitResponse):
\* garments is a list in a "garments" response and None otherwise,
\* previous_messages a list in a "tool_request" response and None otherwise
SerializeResponse(out) ==
    IF out.response_type = "garments"
    THEN JObject([response_type |-> JString(out.response_type),
                  garments |-> JArray([i \in 1..Len(out.garments) |->
                                            SerializeGarment(out.garments[i])]),
                  previous_messages |-> JNull])
    ELSE JObject([response_type |-> JString(out.response_type),
                  garments |-> JNull,
                  previous_messages |-> SerializeTranscript(out.previous_messages)])

\* raise HTTPException(status_code=..., detail=...)
HTTPException(status_code, detail) == [status |-> status_code, detail |-> detail]

\* a failure answered with an empty outfit
EndpointResponseEmptyOutfit(p, out, err) ==
    IF p = "raised"
    THEN [status |-> 200,
          body |-> SerializeResponse(GenerateOutfitResponse("garments", <<>>, None))]
    ELSE [status |-> 200, body |-> SerializeResponse(out)]

\* the try/except of the endpoint around outfit_generator.generate_outfit(...)
EndpointResponse(p, out, err) ==
    IF p = "raised"
    THEN HTTPException(500, "internal error")
    ELSE [status |-> 200, body |-> SerializeResponse(out)]

\* server.py lines 208-211: return the outcome, or answer the exception
Respond ==
    /\ Done
    /\ http_response = None
    /\ http_response' = EndpointResponse(pc, outcome, error)
    /\ UNCHANGED <<db, pair, lookup, closet, context, given, previous_messages, response,
                   result, pc, calls, received, weather_calls, outcome, error>>

ServerNext ==
    \/ Next
    \/ Respond

SpecServer == Init /\ [][ServerNext]_vars

\* a fresh request (no previous_messages) for the closet of three garments
InitFresh ==
    /\ Init
    /\ given = None
    /\ Len(closet) = 3

\* the run under the assumption that the program keeps executing (every step
\* of the run makes a model call or ends the run, so it changes calls or pc)
SpecLive == InitFresh /\ [][Next]_vars /\ WF_<<pc, calls>>(Next)

----------------------------------------------------------------------------
(* Two concurrent runs of generate_outfit.  A list is an object: a run holds *)
(* a reference to it, and two runs handed the same previous_messages list    *)
(* hold the same object.                                                     *)

\* the locals of a run before its first statement
NewRun == [pc |-> "start", ref |-> "arg", response |-> None, result |-> Unbound,
           received |-> <<>>, error |-> "", out |-> None]

\* the outcome of a pass, or of the start, of a run: its locals, the list its
\* previous_messages now names, and whether that list is a newly built one
Landed(s, pm, fresh) == [s |-> s, pm |-> pm, fresh |-> fresh]

\* client.messages.create(messages=pm) answered by r
Called(s, pm, fresh, r) ==
    Landed(IF r = APIConnectionError
           THEN [s EXCEPT !.pc = "raised", !.error = r.exception]
           ELSE [s EXCEPT !.pc = "loop", !.response = r,
                          !.received = Append(s.received, r)],
           pm, fresh)

\* lines 281-297 for a run with locals s
Shaped(s, pm) ==
    LET outfit_output == OutfitOutput(s.response.content)
    IN Landed(IF Truthy(outfit_output)
              THEN [s EXCEPT !.pc = "returned",
                             !.out = GenerateOutfitResponse("garments",
                                        SelectGarments(closet, GarmentIds(outfit_output)),
                                        None)]
              ELSE [s EXCEPT !.pc = "raised",
                             !.error = "Error: Something went wrong with Claude API"],
              pm, FALSE)

\* lines 178-188 for a run handed the list arg (None when the caller gave none)
StartStep(s, arg, r) ==
    Called(s, InitialMessages(arg, closet, context), arg = None, r)

\* one pass of the loop body, lines 191-279, for a run with locals s whose
\* previous_messages names the list pm; r answers the model call of the pass
\* and h the weather lookup, if the pass makes one
LoopStep(s, pm, r, h) ==
    LET content == s.response.content
        tool    == content[FirstToolUse(content)]
    IN IF s.response.stop_reason = "max_tokens"
       THEN Called(s, RetryMessages(pm, content), FALSE, r)
       ELSE IF s.response.stop_reason = "pause_turn"
       THEN Called(s, PausedMessages(pm, content), TRUE, r)
       ELSE IF FirstToolUse(content) = 0
       THEN Shaped(s, pm)
       ELSE IF tool.name = "get_location"
       THEN Landed([s EXCEPT !.pc = "returned",
                             !.out = GenerateOutfitResponse("tool_request", None,
                                        ExtendedMessages(pm, content,
                                            ResultToolUseId(content, tool), NoLocation))],
                   pm, FALSE)
       ELSE IF tool.name = "get_weather"
       THEN LET text == call_weather_api(WeatherArgs(tool).latitude,
                                         WeatherArgs(tool).longitude, h)
            IN Called([s EXCEPT !.result = Bound(text)],
                      ExtendedMessages(pm, content, ResultToolUseId(content, tool), text),
                      TRUE, r)
       ELSE IF tool.name = "print_outfit_garments"
       THEN Shaped(s, pm)
       ELSE IF s.result = Unbound
       THEN Landed([s EXCEPT !.pc = "raised", !.error = "UnboundLocalError"], pm, FALSE)
       ELSE Called(s, ExtendedMessages(pm, content, ResultToolUseId(content, tool),
                                       s.result.value),
                   TRUE, r)

\* the list object a run builds its own lists in
Own(i) == IF i = 1 THEN "own1" ELSE "own2"

\* the new list written into the caller's list object (previous_messages[:] = ...)
RebindIntoArg(heap, ref, own, pm) ==
    [heap |-> [heap EXCEPT !["arg"] = pm, ![own] = pm], ref |-> own]

\* the new turns put into the list object the name refers to (list.extend)
RebindInPlace(heap, ref, own, pm) == [heap |-> [heap EXCEPT ![ref] = pm], ref |-> ref]

\* previous_messages = [*previous_messages, ...]: a new list object is built
\* and the name rebound to it; the list it named before is left as it was
Rebind(heap, ref, own, pm) == [heap |-> [heap EXCEPT ![own] = pm], ref |-> own]

\* the responses the provider may answer the n-th call of run i with
PairResponses(i, n) ==
    { [stop_reason |-> "pause_turn", content |-> <<TextBlock("thinking")>>],
      [stop_reason |-> "max_tokens", content |->
            <<ToolUseBlock(ToolId(10 * i + n, 1), "get_weather", [lat |-> 10, lon |-> 20])>>],
      [stop_reason |-> "tool_use", content |->
            <<ToolUseBlock(ToolId(10 * i + n, 1), "get_weather", [lat |-> 10 * i, lon |-> 20])>>],
      [stop_reason |-> "tool_use", content |->
            <<ToolUseBlock(ToolId(10 * i + n, 1), "get_location", EmptyDict)>>],
      [stop_reason |-> "tool_use", content |->
            <<ToolUseBlock(ToolId(10 * i + n, 1), "print_outfit_garments",
                           [garments |-> <<3, i>>])>>],
      [stop_reason |-> "tool_use", content |->
            <<ToolUseBlock(ToolId(10 * i + n, 1), "get_time", EmptyDict)>>] }

PairReplies(i, n) == PairResponses(i, n) \cup { APIConnectionError }

\* the weather endpoint's answer to the lookups of the two runs
PairHttp == Answer(200, Forecast(61))

PairInit ==
    /\ closet = <<Garment(1), Garment(2), Garment(3)>>
    /\ context \in Contexts
    /\ given \in { None, Resumed(closet, context) }
    /\ previous_messages = None
    /\ response = None
    /\ result = Unbound
    /\ pc = "pair"
    /\ calls = <<>>
    /\ received = <<>>
    /\ weather_calls = <<>>
    /\ outcome = None
    /\ error = ""
    /\ lookup = None
    /\ http_response = None
    /\ db = None
    /\ pair = [heap |-> [arg |-> IF given = None THEN <<>> ELSE given,
                         own1 |-> <<>>, own2 |-> <<>>],
               run |-> <<NewRun, NewRun>>]

\* run i executes lines 178-188
PairStart(i) ==
    /\ pc = "pair"
    /\ pair.run[i].pc = "start"
    /\ \E r \in PairReplies(i, 1) :
        LET to == StartStep(pair.run[i], given, r)
        IN pair' = IF to.fresh
                   THEN [heap |-> [pair.heap EXCEPT ![Own(i)] = to.pm],
                         run |-> [pair.run EXCEPT ![i] = [to.s EXCEPT !.ref = Own(i)]]]
                   ELSE [pair EXCEPT !.run[i] = to.s]
    /\ UNCHANGED <<db, http_response, lookup, closet, context, given, previous_messages,
                   response, result, pc, calls, received, weather_calls, outcome, error>>

\* run i executes one pass of the loop (or the code after it)
PairPass(i) ==
    /\ pc = "pair"
    /\ pair.run[i].pc = "loop"
    /\ \E r \in PairReplies(i, Len(pair.run[i].received) + 1) :
        LET s  == pair.run[i]
            to == LoopStep(s, pair.heap[s.ref], r, PairHttp)
            at == Rebind(pair.heap, s.ref, Own(i), to.pm)
        IN /\ to.s.pc = "loop" => Len(s.received) < PairMaxCalls
           /\ pair' = IF to.fresh
                      THEN [heap |-> at.heap,
                            run |-> [pair.run EXCEPT ![i] = [to.s EXCEPT !.ref = at.ref]]]
                      ELSE [pair EXCEPT !.run[i] = to.s]
    /\ UNCHANGED <<db, http_response, lookup, closet, context, given, previous_messages,
                   response, result, pc, calls, received, weather_calls, outcome, error>>

PairNext == \E i \in 1..2 : PairStart(i) \/ PairPass(i)

SpecPair == PairInit /\ [][PairNext]_vars

TypeOK ==
    /\ pc \in {"start", "loop", "returned", "raised"}
    /\ Len(calls) <= MaxCalls
    /\ Len(received) <= Len(calls)

----------------------------------------------------------------------------
(* Vocabulary of the properties *)

\* neither truncated nor paused
Complete(r) == r.stop_reason \notin {"max_tokens", "pause_turn"}

ToolUseIdx(content) == { i \in 1..Len(content) : content[i].type = "tool_use" }

HasToolUse(content) == ToolUseIdx(content) # {}

\* the tool_use block that comes first in content order
LeadTool(content) ==
    content[CHOOSE i \in ToolUseIdx(content) : \A j \in ToolUseIdx(content) : i <= j]

\* a complete response whose first tool_use block names `name`
Names(r, name) ==
    /\ Complete(r)
    /\ HasToolUse(r.content)
    /\ LeadTool(r.content).name = name

\* a complete response whose first tool_use block is the terminal tool with an ID list
NamesPrintWithList(r) ==
    /\ Names(r, "print_outfit_garments")
    /\ "garments" \in DOMAIN LeadTool(r.content).input

\* turn is an assistant turn holding every block of content, in order
Records(turn, content) ==
    /\ turn.role = "assistant"
    /\ DOMAIN turn.content = {"blocks"}
    /\ Len(turn.content.blocks) = Len(content)
    /\ \A i \in 1..Len(content) :
        LET d == turn.content.blocks[i]
            b == content[i]
        IN /\ d.type = b.type
           /\ IF b.type = "tool_use"
              THEN d.id = b.id /\ d.name = b.name /\ d.input = b.input
              ELSE d.text = b.text

\* turn is a user turn with exactly one block, a tool_result for id
IsToolResultTurn(turn, id) ==
    /\ turn.role = "user"
    /\ DOMAIN turn.content = {"blocks"}
    /\ Len(turn.content.blocks) = 1
    /\ turn.content.blocks[1].type = "tool_result"
    /\ turn.content.blocks[1].tool_use_id = id

\* gs holds exactly the entries of catalog c whose id is in the list ids, once each
ExactlyThoseOf(gs, c, ids) ==
    /\ \A i \in 1..Len(gs) : gs[i] \in SeqRange(c) /\ gs[i].id \in SeqRange(ids)
    /\ \A k \in 1..Len(c) : c[k].id \in SeqRange(ids) => c[k] \in SeqRange(gs)
    /\ Len(gs) = Cardinality({ k \in 1..Len(c) : c[k].id \in SeqRange(ids) })

----------------------------------------------------------------------------
(* Properties *)

\* C1: when the run ends on a complete response whose first tool_use block is
\* print_outfit_garments with an ID list S, it returns the garments outcome whose
\* garments are exactly the closet entries with id in S; an id of S that is in
\* no closet entry is dropped and the run does not fail.
C1_ShapeExact ==
    (Done /\ received # <<>> /\ NamesPrintWithList(response)) =>
        /\ pc = "returned"
        /\ outcome.response_type = "garments"
        /\ ExactlyThoseOf(outcome.garments, closet,
                          LeadTool(response.content).input.garments)

\* an ID list with an unknown and a repeated id was shaped
C1_Witness ==
    /\ pc = "returned"
    /\ NamesPrintWithList(response)
    /\ LeadTool(response.content).input.garments = <<2, 9, 2>>
    /\ outcome.garments = <<Garment(2)>>
    /\ Len(closet) = 3

\* C2: a step taken on a complete response whose first tool_use block is
\* get_location returns response_type "tool_request" and makes no model call;
\* the last two turns of the returned transcript are the assistant turn with
\* the response's content and a user turn with one tool_result block for the
\* get_location block's id with content "No location provided.".
C2_LocationSuspends ==
    [][(pc = "loop" /\ Names(response, "get_location")) =>
        /\ pc' = "returned"
        /\ calls' = calls
        /\ outcome'.response_type = "tool_request"
        /\ LET t == outcome'.previous_messages
               n == Len(t)
           IN /\ n >= 2
              /\ Records(t[n - 1], response.content)
              /\ IsToolResultTurn(t[n], LeadTool(response.content).id)
              /\ t[n].content.blocks[1].content = [text |-> "No location provided."]
      ]_vars

\* a run suspended on a response that also carried a later tool_use block
C2_Witness ==
    /\ pc = "returned"
    /\ outcome.response_type = "tool_request"
    /\ Names(response, "get_location")
    /\ Len(response.content) = 2
    /\ Len(calls) = 1

\* C3: a run that ends after the responses [get_weather, print_outfit_garments]
\* has called the weather lookup exactly once, with the lat/lon of the
\* get_weather input, has made exactly two model calls, the second with the
\* first transcript plus one assistant turn and one tool-result user turn, and
\* returns the garments outcome.
C3_WeatherThenPrint ==
    (/\ Done
     /\ Len(received) = 2
     /\ Names(received[1], "get_weather")
     /\ NamesPrintWithList(received[2])) =>
        LET w == LeadTool(received[1].content)
        IN /\ weather_calls = <<[latitude |-> w.input.lat, longitude |-> w.input.lon]>>
           /\ Len(calls) = 2
           /\ Len(calls[2].messages) = Len(calls[1].messages) + 2
           /\ SubSeq(calls[2].messages, 1, Len(calls[1].messages)) = calls[1].messages
           /\ Records(calls[2].messages[Len(calls[1].messages) + 1], received[1].content)
           /\ IsToolResultTurn(calls[2].messages[Len(calls[1].messages) + 2], w.id)
           /\ pc = "returned"
           /\ outcome.response_type = "garments"

\* the weather-then-print run finished
C3_Witness ==
    /\ pc = "returned"
    /\ Len(received) = 2
    /\ Names(received[1], "get_weather")
    /\ NamesPrintWithList(received[2])
    /\ Len(weather_calls) = 1
    /\ outcome.garments # <<>>

\* C4: a run that ends after the responses [truncated, truncated, terminal]
\* has made exactly 3 model calls, calls #2 and #3 carry the transcript of
\* call #1, and it returns the garments outcome for the terminal ID list.
C4_TwoTruncations ==
    (/\ Done
     /\ Len(received) = 3
     /\ received[1].stop_reason = "max_tokens"
     /\ received[2].stop_reason = "max_tokens"
     /\ NamesPrintWithList(received[3])) =>
        /\ Len(calls) = 3
        /\ calls[2].messages = calls[1].messages
        /\ calls[3].messages = calls[1].messages
        /\ pc = "returned"
        /\ outcome.response_type = "garments"
        /\ ExactlyThoseOf(outcome.garments, closet,
                          LeadTool(received[3].content).input.garments)

\* the run with two truncations finished, the truncated responses holding tool_use blocks
C4_Witness ==
    /\ pc = "returned"
    /\ Len(received) = 3
    /\ received[1].stop_reason = "max_tokens"
    /\ received[2].stop_reason = "max_tokens"
    /\ HasToolUse(received[1].content)
    /\ NamesPrintWithList(received[3])
    /\ outcome.garments # <<>>

\* C5: every truncated response is answered by a request with the same
\* transcript and a token budget strictly larger than the budget of the request
\* it answered, also when that request was itself a truncation retry.
C5_BudgetGrowsEachRetry ==
    \A i \in 1..Len(received) :
        (received[i].stop_reason = "max_tokens" /\ Len(calls) > i) =>
            /\ calls[i + 1].messages = calls[i].messages
            /\ calls[i + 1].max_tokens > calls[i].max_tokens

\* C6: a step taken on a paused response issues one model call with budget
\* 1024 whose transcript is the previous transcript plus exactly one assistant
\* turn holding the response's content; it looks up no weather and returns
\* no outcome.
C6_PauseContinues ==
    [][(pc = "loop" /\ response.stop_reason = "pause_turn") =>
        LET before == calls[Len(calls)].messages
            c      == calls'[Len(calls')]
        IN /\ Len(calls') = Len(calls) + 1
           /\ c.max_tokens = 1024
           /\ Len(c.messages) = Len(before) + 1
           /\ SubSeq(c.messages, 1, Len(before)) = before
           /\ Records(c.messages[Len(c.messages)], response.content)
           /\ weather_calls' = weather_calls
           /\ outcome' = outcome
           /\ pc' # "returned"
      ]_vars

\* the continuation of a paused response that held tool_use blocks was issued
C6_Witness ==
    /\ Len(calls) = 2
    /\ Len(received) >= 1
    /\ received[1].stop_reason = "pause_turn"
    /\ HasToolUse(received[1].content)
    /\ Len(calls[2].messages) = Len(calls[1].messages) + 1
    /\ weather_calls = <<>>

\* C7: a step taken on a complete response without a tool_use block raises the
\* exception with the fixed message, makes no model call and returns no outcome.
C7_NoToolUseFails ==
    [][(pc = "loop" /\ Complete(response) /\ ~HasToolUse(response.content)) =>
        /\ pc' = "raised"
        /\ error' = "Error: Something went wrong with Claude API"
        /\ calls' = calls
        /\ outcome' = None
      ]_vars

\* a run failed on a tool-free response after an earlier model call
C7_Witness ==
    /\ pc = "raised"
    /\ error = "Error: Something went wrong with Claude API"
    /\ Len(received) = 2
    /\ Len(calls) = 2
    /\ Complete(response)
    /\ ~HasToolUse(response.content)

\* C8: a run that ends on a complete response whose first tool_use block is
\* print_outfit_garments returns the garments outcome built from the block's
\* ID list, whatever the block's input is (a non-empty list, an empty list,
\* or an input without a garments entry, read as the empty list).
C8_TerminalAlwaysCompletes ==
    (Done /\ received # <<>> /\ Names(response, "print_outfit_garments")) =>
        LET input == LeadTool(response.content).input
            ids   == IF "garments" \in DOMAIN input THEN input.garments ELSE <<>>
        IN /\ pc = "returned"
           /\ outcome.response_type = "garments"
           /\ ExactlyThoseOf(outcome.garments, closet, ids)

\* C9: a step taken on a complete response with more than one tool_use block
\* dispatches the first block only: get_weather first gives one lookup with
\* that block's lat/lon and no outcome, get_location first gives the
\* tool_request outcome and no lookup, print_outfit_garments first gives the
\* garments outcome of that block's list and no lookup; the assistant turn
\* recorded for the response holds every block in the original order.
C9_OnlyFirstDispatched ==
    [][(pc = "loop" /\ Complete(response)
            /\ Cardinality(ToolUseIdx(response.content)) > 1) =>
        LET first == LeadTool(response.content)
        IN /\ first.name = "get_weather" =>
                /\ weather_calls' = Append(weather_calls,
                        [latitude |-> first.input.lat, longitude |-> first.input.lon])
                /\ pc' # "returned"
                /\ outcome' = outcome
                /\ LET m == calls'[Len(calls')].messages
                   IN /\ Len(m) = Len(previous_messages) + 2
                      /\ Records(m[Len(m) - 1], response.content)
                      /\ IsToolResultTurn(m[Len(m)], first.id)
           /\ first.name = "get_location" =>
                /\ weather_calls' = weather_calls
                /\ calls' = calls
                /\ pc' = "returned"
                /\ outcome'.response_type = "tool_request"
                /\ LET m == outcome'.previous_messages
                   IN /\ Len(m) = Len(previous_messages) + 2
                      /\ Records(m[Len(m) - 1], response.content)
                      /\ IsToolResultTurn(m[Len(m)], first.id)
           /\ first.name = "print_outfit_garments" =>
                /\ weather_calls' = weather_calls
                /\ calls' = calls
                /\ previous_messages' = previous_messages
                /\ pc' = "returned"
                /\ outcome'.response_type = "garments"
                /\ ExactlyThoseOf(outcome'.garments, closet, first.input.garments)
      ]_vars

\* a response with get_weather then get_location was dispatched: one lookup, no suspension
C9_Witness ==
    /\ pc = "loop"
    /\ Len(received) = 2
    /\ Names(received[1], "get_weather")
    /\ Cardinality(ToolUseIdx(received[1].content)) = 2
    /\ Len(weather_calls) = 1
    /\ Len(calls) = 2

\* every assistant turn of t with a tool_use block is followed by a user turn
\* that has a tool_result block for the id of each of its tool_use blocks
ToolUsePaired(t) ==
    \A k \in 1..Len(t) :
        LET uses == IF t[k].role = "assistant" /\ DOMAIN t[k].content = {"blocks"}
                    THEN { b \in SeqRange(t[k].content.blocks) : b.type = "tool_use" }
                    ELSE {}
        IN uses # {} =>
            /\ k < Len(t)
            /\ t[k + 1].role = "user"
            /\ DOMAIN t[k + 1].content = {"blocks"}
            /\ \A b \in uses :
                \E r \in SeqRange(t[k + 1].content.blocks) :
                    r.type = "tool_result" /\ r.tool_use_id = b.id

\* C10: in a run started from a fresh request, every transcript sent in a model
\* call or returned in a tool_request outcome has each assistant turn with a
\* tool_use block followed by a user turn with the matching tool_result block.
C10_ToolUsePaired ==
    given = None =>
        /\ \A i \in 1..Len(calls) : ToolUsePaired(calls[i].messages)
        /\ (pc = "returned" /\ outcome.response_type = "tool_request") =>
                ToolUsePaired(outcome.previous_messages)

\* every tool_result block of t answers a tool_use block of the assistant turn
\* right before it
Correlated(t) ==
    \A k \in 1..Len(t) :
        (t[k].role = "user" /\ DOMAIN t[k].content = {"blocks"}) =>
            \A r \in { b \in SeqRange(t[k].content.blocks) : b.type = "tool_result" } :
                /\ k > 1
                /\ t[k - 1].role = "assistant"
                /\ DOMAIN t[k - 1].content = {"blocks"}
                /\ \E u \in SeqRange(t[k - 1].content.blocks) :
                        u.type = "tool_use" /\ u.id = r.tool_use_id

\* C11: a run given a transcript whose tool_result id matches no tool_use id of
\* the turn before it makes no model call and ends with a failure.
C11_MismatchRejected ==
    (given # None /\ ~Correlated(given)) =>
        /\ calls = <<>>
        /\ pc \in {"start", "raised"}

\* body holds a null where the code rounds a number
HasNullNumber(body) ==
    LET cur == IF "current" \in DOMAIN body THEN body.current ELSE EmptyDict
        day == IF "daily" \in DOMAIN body THEN body.daily ELSE EmptyDict
    IN \/ \E k \in DOMAIN cur \ {"weather_code"} : cur[k] = None
       \/ \E k \in DOMAIN day : day[k] # <<>> /\ day[k][1] = None

\* the outbound request failed: network error, timeout, non-2xx status, or a
\* payload the code cannot read (not JSON, or a null in place of a number)
RequestFailed(h) ==
    \/ h.raises # ""
    \/ h.status < 200
    \/ h.status > 299
    \/ "notjson" \in DOMAIN h.body
    \/ HasNullNumber(h.body)

\* C12: call_weather_api always returns a text and never lets an exception
\* out; when the outbound request failed, the text names the latitude and
\* longitude and says that the weather API is unavailable.
C12_WeatherNeverRaises ==
    (pc = "lookup" /\ lookup.out # Unbound) =>
        /\ "text" \in DOMAIN lookup.out
        /\ "exception" \notin DOMAIN lookup.out
        /\ RequestFailed(lookup.http) =>
            /\ lookup.out.latitude = lookup.latitude
            /\ lookup.out.longitude = lookup.longitude
            /\ lookup.out.note = "weather API unavailable"

\* a payload with a null temperature was turned into the unavailable text
C12_Witness ==
    /\ pc = "lookup"
    /\ lookup.out # Unbound
    /\ lookup.http.raises = ""
    /\ lookup.http.status = 200
    /\ "notjson" \notin DOMAIN lookup.http.body
    /\ HasNullNumber(lookup.http.body)
    /\ lookup.out.note = "weather API unavailable"

\* the bucket of a weather code in the WMO table
WMOBucket(c) ==
    CASE c = 0 -> "Clear sky"
      [] c \in 1..3 -> "Partly cloudy"
      [] c = 45 \/ c = 48 -> "Foggy"
      [] c = 51 \/ c = 53 \/ c = 55 -> "Drizzle"
      [] c = 61 \/ c = 63 \/ c = 65 -> "Rain"
      [] c = 71 \/ c = 73 \/ c = 75 -> "Snow"
      [] c \in 80..82 -> "Rain showers"
      [] c \in 85..86 -> "Snow showers"
      [] c = 95 \/ c = 96 \/ c = 99 -> "Thunderstorm"
      [] OTHER -> "Unknown"

\* C13: the condition reported for a forecast with weather code c is the
\* bucket of c in the WMO table, "Unknown" for every code outside the table.
C13_WeatherCodeTable ==
    (/\ pc = "lookup"
     /\ lookup.out # Unbound
     /\ "condition" \in DOMAIN lookup.out
     /\ "current" \in DOMAIN lookup.http.body
     /\ "weather_code" \in DOMAIN lookup.http.body.current) =>
        lookup.out.condition = WMOBucket(lookup.http.body.current.weather_code)

\* the unlisted code 12 was reported as "Unknown"
C13_Witness ==
    /\ pc = "lookup"
    /\ lookup.out # Unbound
    /\ "condition" \in DOMAIN lookup.out
    /\ "current" \in DOMAIN lookup.http.body
    /\ lookup.http.body.current.weather_code = 12
    /\ lookup.out.condition = "Unknown"

\* C14: a get_weather step whose lookup failed does not end the run because of
\* it: the next model call is made, with the assistant turn and a tool_result
\* turn for the block's id holding the unavailable text; only a transport
\* error of that model call can end the run.
C14_WeatherFailureIsolated ==
    [][(/\ pc = "loop"
        /\ Names(response, "get_weather")
        /\ weather_calls' # weather_calls
        /\ RequestFailed(lookup'.http)) =>
        /\ Len(calls') = Len(calls) + 1
        /\ LET m == calls'[Len(calls')].messages
           IN /\ Len(m) = Len(previous_messages) + 2
              /\ Records(m[Len(m) - 1], response.content)
              /\ IsToolResultTurn(m[Len(m)], LeadTool(response.content).id)
              /\ m[Len(m)].content.blocks[1].content.note = "weather API unavailable"
        /\ pc' = "raised" => error' = "APIConnectionError"
        /\ outcome' = outcome
      ]_vars

\* the model was called again after a failed lookup
C14_Witness ==
    /\ pc = "loop"
    /\ Len(calls) = 2
    /\ Len(received) = 2
    /\ Len(weather_calls) = 1
    /\ lookup # None
    /\ lookup.http.raises = "ConnectError"

\* C15: a model call that got no response (a transport error) is the last
\* call of the run: the run has ended with that error and without an outcome,
\* so no call follows it and it is not repeated.
C15_TransportErrorPropagates ==
    /\ Len(calls) <= Len(received) + 1
    /\ Len(calls) = Len(received) + 1 =>
        /\ pc = "raised"
        /\ error = "APIConnectionError"
        /\ outcome = None

\* the third model call of a run failed
C15_Witness ==
    /\ pc = "raised"
    /\ error = "APIConnectionError"
    /\ Len(calls) = 3
    /\ Len(received) = 2

IsPrefix(a, b) == Len(a) <= Len(b) /\ SubSeq(b, 1, Len(a)) = a

\* C16: the transcript of each model call has the transcript of the call
\* before it as a prefix, and so has the transcript of a tool_request outcome.
C16_AppendOnly ==
    /\ \A i \in 1..(Len(calls) - 1) : IsPrefix(calls[i].messages, calls[i + 1].messages)
    /\ (pc = "returned" /\ outcome.response_type = "tool_request") =>
            IsPrefix(calls[Len(calls)].messages, outcome.previous_messages)

\* a transcript grew by a pause and by a weather dispatch
C16_Witness ==
    /\ Len(calls) = 3
    /\ Len(calls[2].messages) > Len(calls[1].messages)
    /\ Len(calls[3].messages) > Len(calls[2].messages)
    /\ Len(calls[3].messages) = Len(calls[1].messages) + 3

\* C17: a run that has ended has ended in exactly one of three ways: returned
\* "garments" with a garment list and no transcript, returned "tool_request"
\* with a transcript and no garment list, or raised with no response.
C17_ThreeEndings ==
    Done =>
        \/ /\ pc = "returned"
           /\ error = ""
           /\ outcome # None
           /\ outcome.response_type = "garments"
           /\ outcome.previous_messages = None
           /\ \A i \in 1..Len(outcome.garments) : outcome.garments[i] \in SeqRange(closet)
        \/ /\ pc = "returned"
           /\ error = ""
           /\ outcome # None
           /\ outcome.response_type = "tool_request"
           /\ outcome.garments = None
           /\ Len(outcome.previous_messages) >= 2
        \/ /\ pc = "raised"
           /\ error # ""
           /\ outcome = None

\* a run suspended after a weather dispatch: a transcript and no garment list
C17_Witness ==
    /\ pc = "returned"
    /\ outcome.response_type = "tool_request"
    /\ outcome.garments = None
    /\ Len(weather_calls) = 1

\* C18: the transcript of the first model call is one user turn holding the
\* prompt built from the closet and the context when previous_messages is
\* None, and the supplied previous_messages itself otherwise.
C18_FirstTranscript ==
    Len(calls) >= 1 =>
        LET m == calls[1].messages
        IN IF given = None
           THEN /\ Len(m) = 1
                /\ m[1].role = "user"
                /\ DOMAIN m[1].content = {"text"}
                /\ m[1].content.text.garments = closet
                /\ m[1].content.text.context = context
           ELSE m = given

\* the first call of a resumed run was made
C18_Witness ==
    /\ Len(calls) >= 1
    /\ given # None
    /\ Len(given) = 3
    /\ Len(calls[1].messages) = 3

\* the number of turns the run appends for a response
Appended(r) ==
    IF r.stop_reason = "max_tokens" THEN 0
    ELSE IF r.stop_reason = "pause_turn" THEN 1
    ELSE 2

RECURSIVE TurnsBefore(_)
\* the length of the transcript before the turns of the i-th response
TurnsBefore(i) ==
    IF i = 1 THEN Len(calls[1].messages)
    ELSE TurnsBefore(i - 1) + Appended(received[i - 1])

\* C19: the transcript of a tool_request outcome is the initial transcript,
\* then for every response of the run in order its turns (none for a truncated
\* one, the assistant turn for a paused one, the assistant turn and the
\* tool_result turn for a dispatched one), ending with the assistant turn and
\* the placeholder tool_result turn of the get_location response.
C19_WholeTranscriptReturned ==
    (pc = "returned" /\ outcome.response_type = "tool_request") =>
        LET t == outcome.previous_messages
            n == Len(received)
        IN /\ Len(t) = TurnsBefore(n + 1)
           /\ IsPrefix(calls[1].messages, t)
           /\ \A i \in 1..n :
                /\ Appended(received[i]) >= 1 =>
                        Records(t[TurnsBefore(i) + 1], received[i].content)
                /\ Appended(received[i]) = 2 =>
                        IsToolResultTurn(t[TurnsBefore(i) + 2],
                                         LeadTool(received[i].content).id)
           /\ Names(received[n], "get_location")
           /\ t[Len(t)].content.blocks[1].content = [text |-> "No location provided."]

\* a run suspended after a pause and a weather dispatch
C19_Witness ==
    /\ pc = "returned"
    /\ outcome.response_type = "tool_request"
    /\ Len(received) = 3
    /\ received[1].stop_reason = "pause_turn"
    /\ Names(received[2], "get_weather")
    /\ Len(outcome.previous_messages) = Len(calls[1].messages) + 5

\* C20: the garments outcome for a terminal ID list has at most as many
\* garments as the list has ids and at most as many as the closet has entries.
C20_Cardinality ==
    (/\ pc = "returned"
     /\ outcome.response_type = "garments"
     /\ NamesPrintWithList(response)) =>
        /\ Len(outcome.garments) <= Len(LeadTool(response.content).input.garments)
        /\ Len(outcome.garments) <= Len(closet)

\* a list of two ids gave one garment of a closet of two
C20_Witness ==
    /\ pc = "returned"
    /\ outcome.response_type = "garments"
    /\ NamesPrintWithList(response)
    /\ LeadTool(response.content).input.garments = <<3, 1>>
    /\ Len(closet) = 2
    /\ Len(outcome.garments) = 1

\* C21: once the endpoint has answered a run of generate_outfit that raised
\* (no tool_use block, transport error, or any other exception), the answer is
\* status 500 with detail "internal error" and carries no body; a body is
\* answered only for a run that returned.
C21_FailureIs500 ==
    http_response # None =>
        /\ pc = "raised" =>
            /\ http_response.status = 500
            /\ http_response.detail = "internal error"
            /\ "body" \notin DOMAIN http_response
        /\ "body" \in DOMAIN http_response => pc = "returned"

\* the endpoint answered a run whose second model call failed in transport
C21_Witness ==
    /\ http_response # None
    /\ http_response.status = 500
    /\ error = "APIConnectionError"
    /\ Len(calls) = 2

BlockIds(t) ==
    UNION { IF "blocks" \in DOMAIN t[k].content
            THEN { IF t[k].content.blocks[j].type = "tool_use"
                   THEN <<t[k].content.blocks[j].id>>
                   ELSE IF t[k].content.blocks[j].type = "tool_result"
                   THEN <<t[k].content.blocks[j].tool_use_id>>
                   ELSE <<>> : j \in 1..Len(t[k].content.blocks) }
            ELSE {} : k \in 1..Len(t) }

\* the transcripts sent to the model or returned so far
Transcripts ==
    { calls[k].messages : k \in 1..Len(calls) }
    \cup (IF pc = "returned" /\ outcome.response_type = "tool_request"
          THEN { outcome.previous_messages } ELSE {})

\* the i-th response has been acted on
Handled(i) == i < Len(received) \/ Done

\* C23: a truncated response is neither dispatched nor recorded: the call that
\* follows it sends the same transcript, the id of none of its tool_use blocks
\* is in any transcript sent or returned, the run does not end on it except by
\* a transport error of the retry, and the weather lookups made are those of
\* the complete get_weather responses only.
C23_TruncatedIgnored ==
    /\ \A i \in 1..Len(received) :
        received[i].stop_reason = "max_tokens" =>
            /\ i < Len(calls) => calls[i + 1].messages = calls[i].messages
            /\ \A j \in ToolUseIdx(received[i].content), t \in Transcripts :
                    <<received[i].content[j].id>> \notin BlockIds(t)
            /\ i = Len(received) =>
                    /\ outcome = None
                    /\ pc = "loop" \/ (pc = "raised" /\ error = "APIConnectionError")
    /\ Len(weather_calls) =
            Cardinality({ i \in 1..Len(received) :
                            Names(received[i], "get_weather") /\ Handled(i) })

\* truncated responses offering get_weather and print_outfit_garments were
\* retried, and the run then suspended on get_location without any lookup
C23_Witness ==
    /\ pc = "returned"
    /\ outcome.response_type = "tool_request"
    /\ Len(received) = 3
    /\ received[1].stop_reason = "max_tokens"
    /\ HasToolUse(received[1].content)
    /\ LeadTool(received[1].content).name = "get_weather"
    /\ received[2].stop_reason = "max_tokens"
    /\ HasToolUse(received[2].content)
    /\ LeadTool(received[2].content).name = "print_outfit_garments"
    /\ weather_calls = <<>>

\* a complete response the loop stops on: no tool_use block, or a first
\* tool_use block naming the terminal tool or the client-resolved tool
Stopper(r) ==
    /\ Complete(r)
    /\ \/ ~HasToolUse(r.content)
       \/ LeadTool(r.content).name \in {"print_outfit_garments", "get_location"}

\* C24: one model call is made per response consumed (one more when the last
\* call failed in transport), no response before the last is one the loop
\* stops on, a run that ended otherwise than by a transport error or an
\* unknown tool ended on such a response with as many calls as responses, and
\* a run that has received such a response ends.
C24_OneCallPerResponse ==
    /\ [](/\ Len(calls) = Len(received) + (IF error = "APIConnectionError" THEN 1 ELSE 0)
          /\ \A i \in 1..(Len(received) - 1) : ~Stopper(received[i])
          /\ (Done /\ error \notin {"APIConnectionError", "UnboundLocalError"}) =>
                /\ Stopper(received[Len(received)])
                /\ Len(calls) = Len(received))
    /\ ((pc = "loop" /\ Stopper(response)) ~> Done)

\* a script of a truncated, a get_weather and a terminal response was run with
\* three model calls
C24_Witness ==
    /\ pc = "returned"
    /\ Len(calls) = 3
    /\ Len(received) = 3
    /\ received[1].stop_reason = "max_tokens"
    /\ Names(received[2], "get_weather")
    /\ Names(received[3], "print_outfit_garments")

\* a response the loop goes on from: truncated, paused, or asking for weather
Continuing(r) ==
    \/ r.stop_reason \in {"max_tokens", "pause_turn"}
    \/ Names(r, "get_weather")

\* C25: nothing in the loop counts iterations: whatever the number of calls
\* made, the run can step from a truncated, paused or get_weather response
\* (only the bound of the exploration stops it), and every such step makes one
\* more model call and ends the run only by a transport error of that call.
C25_NoIterationCap ==
    /\ []((pc = "loop" /\ Continuing(response) /\ Len(calls) < MaxCalls) =>
            ENABLED (Truncated \/ Paused \/ GetWeather))
    /\ [][(pc = "loop" /\ Continuing(response)) =>
            /\ Len(calls') = Len(calls) + 1
            /\ pc' = "loop" \/ error' = "APIConnectionError"]_vars

\* as many get_weather round trips as the exploration allows, and the run is
\* still in the loop with another get_weather response to act on
C25_Witness ==
    /\ pc = "loop"
    /\ Len(calls) = MaxCalls
    /\ Len(received) = MaxCalls
    /\ \A i \in 1..MaxCalls : Names(received[i], "get_weather")
    /\ Len(weather_calls) = MaxCalls - 1

\* C26: one pass of the loop makes at most one model call and at most one
\* weather lookup, the lookup being the one the first tool_use block of the
\* response asks for; and a model call made in a pass is sent the transcript
\* the pass has built: the transcript before the pass with the turns of the
\* response just handled appended.
C26_Sequential ==
    [][/\ Len(calls') <= Len(calls) + 1
       /\ Len(weather_calls') <= Len(weather_calls) + 1
       /\ Len(weather_calls') > Len(weather_calls) =>
            /\ Names(response, "get_weather")
            /\ weather_calls'[Len(weather_calls')] =
                    [latitude |-> LeadTool(response.content).input.lat,
                     longitude |-> LeadTool(response.content).input.lon]
            /\ Len(calls') = Len(calls) + 1
       /\ Len(calls') > Len(calls) =>
            /\ calls'[Len(calls')].messages = previous_messages'
            /\ pc = "loop" =>
                /\ IsPrefix(previous_messages, previous_messages')
                /\ Len(previous_messages') = Len(previous_messages) + Appended(response)]_vars

\* a response offering two tool_use blocks was handled with one lookup, and the
\* second model call was sent the transcript with its two turns
C26_Witness ==
    /\ Len(calls) = 2
    /\ Len(received) >= 1
    /\ Names(received[1], "get_weather")
    /\ Cardinality(ToolUseIdx(received[1].content)) = 2
    /\ Len(weather_calls) = 1
    /\ calls[2].messages = previous_messages
    /\ Len(calls[2].messages) = Len(calls[1].messages) + 2

\* C27: in every transcript sent or returned, every user turn the run has
\* appended (a turn after the initial transcript) holds exactly one block, a
\* tool_result, and the turn right before it is an assistant turn the run has
\* appended whose first tool_use block has the id the tool_result answers.
C27_ResultAnswersFirstToolUse ==
    \A t \in Transcripts :
        \A k \in (Len(calls[1].messages) + 1)..Len(t) :
            t[k].role = "user" =>
                /\ DOMAIN t[k].content = {"blocks"}
                /\ Len(t[k].content.blocks) = 1
                /\ t[k].content.blocks[1].type = "tool_result"
                /\ k - 1 > Len(calls[1].messages)
                /\ t[k - 1].role = "assistant"
                /\ HasToolUse(t[k - 1].content.blocks)
                /\ t[k].content.blocks[1].tool_use_id = LeadTool(t[k - 1].content.blocks).id

\* a returned transcript with the tool_result turns of a get_weather response
\* and of a get_location response, each response offering a second block
C27_Witness ==
    /\ pc = "returned"
    /\ outcome.response_type = "tool_request"
    /\ Len(received) = 2
    /\ Names(received[1], "get_weather")
    /\ Len(received[1].content) = 2
    /\ Names(received[2], "get_location")
    /\ Len(received[2].content) = 2
    /\ Len(outcome.previous_messages) = Len(calls[1].messages) + 4

\* C28: in a run of a fresh request that has received only paused,
\* get_weather and get_location responses, no transcript sent or returned has
\* two consecutive turns of the same role.
C28_RolesAlternate ==
    (/\ given = None
     /\ \A i \in 1..Len(received) :
            \/ received[i].stop_reason = "pause_turn"
            \/ Names(received[i], "get_weather")
            \/ Names(received[i], "get_location")) =>
        \A t \in Transcripts :
            \A k \in 1..(Len(t) - 1) : t[k].role # t[k + 1].role

\* C30: every pass that answers a tool_use block and calls the model again has
\* run the handler of that block in the same pass: the block names get_weather,
\* a lookup was made in the pass, and the content of the tool_result turn it
\* appended is the text that lookup returned.
C30_ResultIsFresh ==
    [][(/\ pc = "loop"
        /\ Complete(response)
        /\ HasToolUse(response.content)
        /\ Len(calls') > Len(calls)) =>
            /\ LeadTool(response.content).name = "get_weather"
            /\ Len(weather_calls') = Len(weather_calls) + 1
            /\ previous_messages'[Len(previous_messages')].content.blocks[1].content
                    = lookup'.out]_vars

\* the replies a run with locals s has been given, in order
Script(s) ==
    IF s.error = "APIConnectionError" THEN Append(s.received, APIConnectionError)
    ELSE s.received

RECURSIVE AloneAfter(_, _)
\* a run executed alone, with a list of its own, up to its k-th reply
AloneAfter(script, k) ==
    IF k = 1 THEN StartStep(NewRun, given, script[1])
    ELSE LET p == AloneAfter(script, k - 1)
         IN LoopStep(p.s, p.pm, script[k], PairHttp)

\* a run executed alone on the replies of s, as far as s has got
Alone(s) ==
    LET p == AloneAfter(Script(s), Len(Script(s)))
    IN IF s.pc \in {"returned", "raised"} /\ p.s.pc = "loop"
       THEN LoopStep(p.s, p.pm, APIConnectionError, PairHttp)
       ELSE p

SameOutcome(a, b) ==
    /\ a.response_type = b.response_type
    /\ IF a.response_type = "garments" THEN a.garments = b.garments
       ELSE a.previous_messages = b.previous_messages

\* the blocks of transcript t were made for run i or come from the caller
OwnBlocks(t, i) ==
    \A id \in BlockIds(t) : id # <<>> => (id[1][1] = 0 \/ id[1][1] \div 10 = i)

\* C29: under every interleaving of two runs handed the same arguments, the
\* caller's list is left as it was, and each run is where it would be had it
\* run alone on the replies it got: same position, same failure, same
\* transcript, same outcome; its transcript and the one it returns hold only
\* blocks of the caller's transcript and of its own responses.
C29_NoSharedState ==
    /\ pair.heap.arg = (IF given = None THEN <<>> ELSE given)
    /\ \A i \in 1..2 :
        LET s == pair.run[i]
        IN s.pc # "start" =>
            /\ Alone(s).s.pc = s.pc
            /\ Alone(s).s.error = s.error
            /\ Alone(s).pm = pair.heap[s.ref]
            /\ OwnBlocks(pair.heap[s.ref], i)
            /\ s.pc = "returned" =>
                /\ SameOutcome(Alone(s).s.out, s.out)
                /\ s.out.response_type = "tool_request" =>
                        OwnBlocks(s.out.previous_messages, i)

\* two runs handed the same list both extended the transcript (one for a
\* pause, one for a weather lookup) and both suspended
C29_Witness ==
    /\ given # None
    /\ pair.run[1].pc = "returned"
    /\ pair.run[2].pc = "returned"
    /\ pair.run[1].out.response_type = "tool_request"
    /\ pair.run[2].out.response_type = "tool_request"
    /\ pair.run[1].received[1].stop_reason = "pause_turn"
    /\ Names(pair.run[2].received[1], "get_weather")
    /\ Len(pair.run[1].out.previous_messages) = Len(given) + 3
    /\ Len(pair.run[2].out.previous_messages) = Len(given) + 4

\* C31: the list object the caller handed in holds the same turns at every
\* point of every run, whatever the run has done (retried, appended for a
\* pause or a lookup, suspended, completed, failed); a run whose transcript has
\* grown holds a list of its own.
C31_CallerListUntouched ==
    /\ pair.heap.arg = (IF given = None THEN <<>> ELSE given)
    /\ \A i \in 1..2 :
        (pair.run[i].pc # "start"
            /\ Len(pair.heap[pair.run[i].ref]) > Len(pair.heap.arg)) =>
                pair.run[i].ref = Own(i)

\* two runs were handed the same list: one appended for a pause and then
\* suspended, the other appended for a lookup and then completed
C31_Witness ==
    /\ given # None
    /\ pair.heap.arg = given
    /\ pair.run[1].pc = "returned"
    /\ pair.run[1].received[1].stop_reason = "pause_turn"
    /\ pair.run[1].out.response_type = "tool_request"
    /\ Len(pair.heap.own1) = Len(given) + 1
    /\ pair.run[2].pc = "returned"
    /\ Names(pair.run[2].received[1], "get_weather")
    /\ pair.run[2].out.response_type = "garments"
    /\ Len(pair.heap.own2) = Len(given) + 2

\* C32: the first model call asks for 1024 tokens, a call made in reaction to
\* a truncated response asks for 4096, and a call made in reaction to any other
\* response asks for 1024, whatever earlier calls of the run asked for.
C32_BudgetNotSticky ==
    \A k \in 1..Len(calls) :
        calls[k].max_tokens =
            IF k > 1 /\ received[k - 1].stop_reason = "max_tokens"
            THEN RetryMaxTokens ELSE BaseMaxTokens

\* a call with the enlarged budget was followed by a call after a lookup
C32_Witness ==
    /\ Len(calls) = 3
    /\ calls[2].max_tokens = 4096
    /\ Names(received[2], "get_weather")
    /\ calls[3].max_tokens = 1024

\* the place of garment g in catalog c
PlaceIn(c, g) == CHOOSE k \in 1..Len(c) : c[k] = g

\* C33: the garments of a garments outcome are entries of the closet, each at
\* most once, in the order the closet has them.
C33_CatalogOrder ==
    (pc = "returned" /\ outcome.response_type = "garments") =>
        /\ \A i \in 1..Len(outcome.garments) : outcome.garments[i] \in SeqRange(closet)
        /\ \A i, j \in 1..Len(outcome.garments) :
                i < j => PlaceIn(closet, outcome.garments[i])
                            < PlaceIn(closet, outcome.garments[j])

\* an ID list in the reverse of the closet's order gave the garments in the
\* closet's order
C33_Witness ==
    /\ pc = "returned"
    /\ outcome.response_type = "garments"
    /\ NamesPrintWithList(response)
    /\ LeadTool(response.content).input.garments = <<3, 1>>
    /\ Len(closet) = 3
    /\ Len(outcome.garments) = 2
    /\ outcome.garments[1].id = 1
    /\ outcome.garments[2].id = 3

----------------------------------------------------------------------------
\* The garment service, the stores and session_scope over a database session

\* an Optional field of a request that was given a value
Some(v) == [value |-> v]

\* colours are strings, modelled as the sequence of their characters
Black == <<"#", "0", "0", "0", "0", "0", "0">>

Green == <<"#", "0", "0", "F", "f", "0", "0">>

Red == <<"r", "e", "d">>

HexDigits == { "0", "1", "2", "3", "4", "5", "6", "7", "8", "9",
               "a", "b", "c", "d", "e", "f", "A", "B", "C", "D", "E", "F" }

\* ^#[0-9A-Fa-f]{6}$
HEX_COLOR_RE(value) ==
    /\ Len(value) = 7
    /\ value[1] = "#"
    /\ \A k \in 2..7 : value[k] \in HexDigits

_validate_color(value) ==
    IF ~HEX_COLOR_RE(value)
    THEN Raise(HTTPException(400, "invalid color hex code (expected #RRGGBB or #RGB)"))
    ELSE Return(None)

\* the validator of partial fields called by PATCH /garments/{id}: it checks
\* the colour when one is given, as validate_create_garment_request does
validate_update_garment_request(req) ==
    IF req.color # None THEN _validate_color(req.color.value) ELSE Return(None)

\* a row of the garments table
GarmentRow(id, owner, category, material, color, name, image_url, dirty, created_at) ==
    [id |-> id, owner |-> owner, category |-> category, material |-> material,
     color |-> color, name |-> name, image_url |-> image_url, dirty |-> dirty,
     created_at |-> created_at]

\* a row of the users table
UserRow(id, username, hashed_password, created_at) ==
    [id |-> id, username |-> username, hashed_password |-> hashed_password,
     created_at |-> created_at]

UpdateGarmentRequest(owner, category, color, name, material, image_url, dirty) ==
    [owner |-> owner, category |-> category, color |-> color, name |-> name,
     material |-> material, image_url |-> image_url, dirty |-> dirty]

GarmentResponseOf(g) ==
    [id |-> g.id, owner |-> g.owner, category |-> g.category, material |-> g.material,
     color |-> g.color, name |-> g.name, image_url |-> g.image_url, dirty |-> g.dirty,
     created_at |-> g.created_at]

\* the committed database the requests start from: rows are stored at their id
Stored ==
    [garments |-> << GarmentRow(1, 1, "SHIRT", "COTTON", Black, "tee", "/garments/a", TRUE, 1),
                     GarmentRow(2, 1, "PANTS", "DENIM", Black, "jeans", "/garments/b", FALSE, 1) >>,
     users |-> << UserRow(1, "ann", "x", 1) >>]

\* the ids PATCH /garments/{id} is called with: two stored garments and no garment
GarmentPathIds == 1..(Len(Stored.garments) + 1)

UpdateGarmentRequests ==
    { UpdateGarmentRequest(o, c, col, n, m, i, d) :
        o \in {None, Some(2)}, c \in {None, Some("SHORTS")},
        col \in {None, Some(Green), Some(Red)}, n \in {None, Some("polo")},
        m \in {None, Some("WOOL")}, i \in {None, Some("/garments/c")},
        d \in {None, Some(FALSE)} }

\* the rows a body hands to a store's create: a garment, a new user and a
\* user whose username is taken
NewGarment == GarmentRow(0, 2, "SHORTS", "WOOL", Green, "polo", "/garments/c", FALSE, 2)

NewUsers == { UserRow(0, "ann", "y", 2), UserRow(0, "bob", "y", 2) }

\* what runs inside session_scope
Bodies ==
    { [op |-> "update", id |-> id, req |-> req] :
            id \in GarmentPathIds, req \in UpdateGarmentRequests }
    \cup { [op |-> "create_garment", row |-> NewGarment] }
    \cup { [op |-> "create_user", row |-> u] : u \in NewUsers }

\* which of the session's database calls (get, flush, commit) fails, 0 for none
Faults == 0..3

\* session_factory(): a session sees the committed rows and has made no call
Session(stored) ==
    [garments |-> stored.garments, users |-> stored.users, ops |-> <<>>, n |-> 0]

Fails(s, fault) == s.n + 1 = fault

Logged(s, op) == [s EXCEPT !.ops = Append(@, op), !.n = @ + 1]

\* session.get(Garment, id)
get(s, id, fault) ==
    IF Fails(s, fault)
    THEN [s |-> Logged(s, "get"), out |-> Raise("SQLAlchemyError")]
    ELSE [s |-> Logged(s, "get"),
          out |-> Return(IF id \in 1..Len(s.garments) THEN s.garments[id] ELSE None)]

\* uq_users_username
Unique(users) ==
    \A i, j \in 1..Len(users) : users[i].username = users[j].username => i = j

\* session.flush() of the pending rows
flush(s, garments, users, fault) ==
    IF Fails(s, fault) \/ ~Unique(users)
    THEN [s |-> Logged(s, "flush"), out |-> Raise("SQLAlchemyError")]
    ELSE [s |-> [Logged(s, "flush") EXCEPT !.garments = garments, !.users = users],
          out |-> Return(None)]

\* session.add(row)
add(s) == [s EXCEPT !.ops = Append(@, "add")]

\* session.rollback()
rollback(s, stored) ==
    [s EXCEPT !.ops = Append(@, "rollback"),
              !.garments = stored.garments, !.users = stored.users]

\* session.commit()
commit(s, fault) ==
    IF Fails(s, fault)
    THEN [s |-> Logged(s, "commit"), out |-> Raise("SQLAlchemyError")]
    ELSE [s |-> Logged(s, "commit"), out |-> Return(None)]

\* session.close()
close(s) == [s EXCEPT !.ops = Append(@, "close")]

\* _GarmentStore.update
GarmentStoreUpdate(s, stored, garment, fault) ==
    LET f == flush(s, [s.garments EXCEPT ![garment.id] = garment], s.users, fault)
    IN  IF f.out.raised
        THEN [s |-> rollback(f.s, stored), out |-> Raise("GarmentStoreError")]
        ELSE [s |-> f.s, out |-> Return(garment)]

\* _GarmentStore.create: the flush assigns the id
GarmentStoreCreate(s, stored, garment, fault) ==
    LET row == [garment EXCEPT !.id = Len(s.garments) + 1]
        f == flush(add(s), Append(s.garments, row), s.users, fault)
    IN  IF f.out.raised
        THEN [s |-> rollback(f.s, stored), out |-> Raise("GarmentStoreError")]
        ELSE [s |-> f.s, out |-> Return(row)]

\* _UserStore.create
UserStoreCreate(s, stored, user, fault) ==
    LET row == [user EXCEPT !.id = Len(s.users) + 1]
        f == flush(add(s), s.garments, Append(s.users, row), fault)
    IN  IF f.out.raised
        THEN [s |-> rollback(f.s, stored), out |-> Raise("UserStoreError")]
        ELSE [s |-> f.s, out |-> Return(row)]

\* `if req.field is not None: garment.field = req.field`
SetIfGiven(old, field) == IF field # None THEN field.value ELSE old

\* a mutant of Assigned: `if req.dirty:` in place of `is not None`
AssignedDirtyTruthy(garment, req) ==
    [garment EXCEPT !.owner = SetIfGiven(@, req.owner),
                    !.category = SetIfGiven(@, req.category),
                    !.material = SetIfGiven(@, req.material),
                    !.color = SetIfGiven(@, req.color),
                    !.name = SetIfGiven(@, req.name),
                    !.image_url = SetIfGiven(@, req.image_url),
                    !.dirty = IF req.dirty # None /\ req.dirty.value THEN TRUE ELSE @]

\* the seven conditional assignments of DbGarmentService.update
Assigned(garment, req) ==
    [garment EXCEPT !.owner = SetIfGiven(@, req.owner),
                    !.category = SetIfGiven(@, req.category),
                    !.material = SetIfGiven(@, req.material),
                    !.color = SetIfGiven(@, req.color),
                    !.name = SetIfGiven(@, req.name),
                    !.image_url = SetIfGiven(@, req.image_url),
                    !.dirty = SetIfGiven(@, req.dirty)]

\* the body of DbGarmentService.update inside session_scope
update(s, stored, id, req, fault) ==
    LET got == get(s, id, fault)
    IN  IF got.out.raised THEN got
        ELSE IF got.out.value = None
        THEN [s |-> got.s, out |-> Raise("ValueError")]
        ELSE LET persisted == GarmentStoreUpdate(got.s, stored,
                                                 Assigned(got.out.value, req), fault)
             IN  IF persisted.out.raised THEN persisted
                 ELSE [s |-> persisted.s,
                       out |-> Return(GarmentResponseOf(persisted.out.value))]

\* what the body does with the session and how it ends
Body(s, stored, call, fault) ==
    CASE call.op = "update" -> update(s, stored, call.id, call.req, fault)
      [] call.op = "create_garment" -> GarmentStoreCreate(s, stored, call.row, fault)
      [] call.op = "create_user" -> UserStoreCreate(s, stored, call.row, fault)

\* a mutant of AfterYield: the commit is not skipped when the body raises
AfterYieldCommit(out) == "commit"

\* session_scope after the yield: commit when the body finished, the except
\* clause when it raised
AfterYield(out) == IF out.raised THEN "except" ELSE "commit"

\* the except clauses of PATCH /garments/{id}
update_garmentExcept(out) ==
    IF out.exception = "ValueError"
    THEN HTTPException(404, "garment not found")
    ELSE HTTPException(500, "internal error")

DbInit ==
    /\ closet = <<>>
    /\ context = ""
    /\ given = None
    /\ previous_messages = None
    /\ response = None
    /\ result = Unbound
    /\ pc = "db"
    /\ calls = <<>>
    /\ received = <<>>
    /\ weather_calls = <<>>
    /\ outcome = None
    /\ error = ""
    /\ lookup = None
    /\ http_response = None
    /\ pair = None
    /\ \E call \in Bodies, fault \in Faults :
            db = [stored |-> Stored, session |-> None, call |-> call, fault |-> fault,
                  pc |-> IF call.op = "update" THEN "request" ELSE "enter",
                  body |-> Unbound, out |-> Unbound, answer |-> None]

Idle == UNCHANGED <<http_response, pair, lookup, closet, context, given, previous_messages,
                    response, result, pc, calls, received, weather_calls, outcome, error>>

\* PATCH /garments/{id}: validate the partial fields before the try block
Validate ==
    /\ db.pc = "request"
    /\ LET v == validate_update_garment_request(db.call.req)
       IN  db' = IF v.raised
                 THEN [db EXCEPT !.pc = "done", !.answer = v.exception]
                 ELSE [db EXCEPT !.pc = "enter"]
    /\ Idle

\* session_scope line 23, up to the yield
Enter ==
    /\ db.pc = "enter"
    /\ db' = [db EXCEPT !.pc = "body", !.session = Session(db.stored)]
    /\ Idle

\* the body of the with block
RunBody ==
    /\ db.pc = "body"
    /\ LET b == Body(db.session, db.stored, db.call, db.fault)
       IN  db' = [db EXCEPT !.session = b.s, !.body = b.out, !.out = b.out,
                            !.pc = AfterYield(b.out)]
    /\ Idle

\* session_scope line 26
Commit ==
    /\ db.pc = "commit"
    /\ LET c == commit(db.session, db.fault)
       IN  db' = IF c.out.raised
                 THEN [db EXCEPT !.session = c.s, !.out = c.out, !.pc = "except"]
                 ELSE [db EXCEPT !.session = c.s, !.pc = "finally",
                                 !.stored = [garments |-> c.s.garments,
                                             users |-> c.s.users]]
    /\ Idle

\* session_scope lines 27-29: roll back, raise again
Except ==
    /\ db.pc = "except"
    /\ db' = [db EXCEPT !.session = rollback(db.session, db.stored), !.pc = "finally"]
    /\ Idle

\* session_scope lines 30-31
Finally ==
    /\ db.pc = "finally"
    /\ db' = [db EXCEPT !.session = close(db.session),
                        !.pc = IF db.call.op = "update" THEN "respond" ELSE "done"]
    /\ Idle

\* PATCH /garments/{id}: the try block returns out or an except clause answers
PatchAnswer ==
    /\ db.pc = "respond"
    /\ db' = [db EXCEPT !.pc = "done",
                        !.answer = IF db.out.raised THEN update_garmentExcept(db.out)
                                   ELSE [status |-> 200, body |-> db.out.value]]
    /\ Idle

DbNext == Validate \/ Enter \/ RunBody \/ Commit \/ Except \/ Finally \/ PatchAnswer

SpecDb == DbInit /\ [][DbNext]_vars

----------------------------------------------------------------------------
\* C34: once DbGarmentService.update(id, req) has ended, every row other than
\* row id is as it was stored; when it returned, each of the seven fields of
\* row id holds req's value where req gives one and its stored value where
\* req gives None, id and created_at are as stored, and the returned response
\* shows the row; when it raised, row id is as stored; for an id with no row
\* (the database answering the lookup) it raised ValueError, nothing stored
\* changed, and PATCH /garments/{id} answered 404 "garment not found".
UpdatableFields == {"owner", "category", "material", "color", "name", "image_url", "dirty"}

SessionOps == IF db.session = None THEN <<>> ELSE db.session.ops

Has(ops, op) == \E k \in 1..Len(ops) : ops[k] = op

Exited == db.session # None /\ db.pc \in {"respond", "done"}

C35_SessionScope ==
    LET ops == SessionOps
    IN  /\ Has(ops, "commit") => (db.body # Unbound /\ ~db.body.raised)
        /\ Has(ops, "close") => Exited
        /\ Exited =>
            /\ Has(ops, "commit") <=> ~db.body.raised
            /\ db.body.raised =>
                    /\ Has(ops, "rollback")
                    /\ db.out = db.body
                    /\ db.stored = Stored
            /\ db.out.raised => (Has(ops, "rollback") /\ db.stored = Stored)
            /\ ops[Len(ops)] = "close"
            /\ \A k \in 1..(Len(ops) - 1) : ops[k] # "close"
            /\ ops[Len(ops) - 1] \in {"commit", "rollback"}

\* creating a user whose username is taken: the store rolled back and raised
\* UserStoreError, session_scope rolled back again and closed
C35_Witness ==
    /\ db.pc = "done"
    /\ db.call.op = "create_user"
    /\ db.body = Raise("UserStoreError")
    /\ db.out = Raise("UserStoreError")
    /\ db.session.ops = <<"add", "flush", "rollback", "rollback", "close">>
    /\ db.stored = Stored

====
